---- MODULE Spec2Model ----
(***************************************************************************)
(* Todo application: the validated CRUD server actions                     *)
(* (src/actions/todoAction.ts), the table they act on (src/db/schema.ts)   *)
(* and the client-side useTodos controller (hooks/useTodos.ts) that        *)
(* applies optimistic updates and rolls them back when an action fails;    *)
(* the useError hook with its dismiss timeouts, and the AddTodo component  *)
(* that submits to createTodo.                                             *)
(*                                                                         *)
(* Strings are sequences of one-character strings, so that String.trim,    *)
(* the length checks and the UUID format are computed and not assumed.     *)
(* An async function is split at its awaits: one action per segment that   *)
(* runs without suspension.                                                *)
(***************************************************************************)
EXTENDS Integers, Sequences, FiniteSets, TLC

\* ------------------------------------------------------------------------
\* Bounds of the model
\* ------------------------------------------------------------------------

\* Number of controller operations / page loads issued in one behaviour.
MaxOps == 2

\* Number of operations that can be awaiting their action at the same time.
MaxInFlight == 2

\* Longest text of the exhaustive text universe of the validation
\* specification (the boundary texts around MaxTextLen are added to it).
MaxShortLen == 3

\* Time at which the clock of the error display specification stops.
MaxClock == 9000

\* Number of setTimeout callbacks of useError pending at the same time.
MaxTimers == 3

\* ------------------------------------------------------------------------
\* Program constants
\* ------------------------------------------------------------------------

\* dismissAfter: number = 5000 of useError
DismissAfter == 5000

\* .min(1, ...) of todoTextSchema
MinTextLen == 1

\* .max(500, ...) of todoTextSchema
MaxTextLen == 500

\* ------------------------------------------------------------------------
\* Identifiers: well-formed UUIDs and malformed strings
\* ------------------------------------------------------------------------

\* "11111111-1111-4111-8111-111111111111"
U1 ==
    <<"1","1","1","1","1","1","1","1","-","1","1","1","1","-","4","1","1","1","-","8","1","1","1","-","1","1","1","1","1","1","1","1","1","1","1","1">>

\* "22222222-2222-4222-9222-222222222222"
U2 ==
    <<"2","2","2","2","2","2","2","2","-","2","2","2","2","-","4","2","2","2","-","9","2","2","2","-","2","2","2","2","2","2","2","2","2","2","2","2">>

\* "aaaaaaaa-BBBB-4ccc-addd-eeeeeeeeeeee"
U3 ==
    <<"a","a","a","a","a","a","a","a","-","B","B","B","B","-","4","c","c","c","-","a","d","d","d","-","e","e","e","e","e","e","e","e","e","e","e","e">>

\* "bbbbbbbb-0000-4abc-8def-0123456789ab"
U4 ==
    <<"b","b","b","b","b","b","b","b","-","0","0","0","0","-","4","a","b","c","-","8","d","e","f","-","0","1","2","3","4","5","6","7","8","9","a","b">>

\* "not-a-uuid"
BadWord ==
    <<"n","o","t","-","a","-","u","u","i","d">>

\* "1"
BadInteger ==
    <<"1">>

\* "11111111-1111-4111-8111-11111111111"
BadShort ==
    <<"1","1","1","1","1","1","1","1","-","1","1","1","1","-","4","1","1","1","-","8","1","1","1","-","1","1","1","1","1","1","1","1","1","1","1">>

\* "11111111-1111-4111-8111-1111111111111"
BadLong ==
    <<"1","1","1","1","1","1","1","1","-","1","1","1","1","-","4","1","1","1","-","8","1","1","1","-","1","1","1","1","1","1","1","1","1","1","1","1","1">>

\* "1111111g-1111-4111-8111-111111111111"
BadChar ==
    <<"1","1","1","1","1","1","1","g","-","1","1","1","1","-","4","1","1","1","-","8","1","1","1","-","1","1","1","1","1","1","1","1","1","1","1","1">>

\* "11111111111141118111111111111111"
BadNoHyphen ==
    <<"1","1","1","1","1","1","1","1","1","1","1","1","4","1","1","1","8","1","1","1","1","1","1","1","1","1","1","1","1","1","1","1">>

\* "1111111-11111-4111-8111-111111111111"
BadHyphenPos ==
    <<"1","1","1","1","1","1","1","-","1","1","1","1","1","-","4","1","1","1","-","8","1","1","1","-","1","1","1","1","1","1","1","1","1","1","1","1">>

\* " 1111111-1111-4111-8111-111111111111"
BadPadded ==
    <<" ","1","1","1","1","1","1","1","-","1","1","1","1","-","4","1","1","1","-","8","1","1","1","-","1","1","1","1","1","1","1","1","1","1","1","1">>

\* "0"
BadZero ==
    <<"0">>

\* "-1"
BadNegative ==
    <<"-", "1">>

\* "1.5"
BadFraction ==
    <<"1", ".", "5">>

\* No identifier / no text (a call that takes none).
NoString == <<>>

HexDigits ==
    {"0","1","2","3","4","5","6","7","8","9",
     "a","b","c","d","e","f","A","B","C","D","E","F"}

\* z.string().uuid(): five groups of 8-4-4-4-12 hexadecimal digits separated
\* by hyphens, 36 characters in all.
\* Variant: the separators are checked, the digits are not.
IsUuidSeparatorsOnly(s) ==
    /\ Len(s) = 36
    /\ \A i \in {9, 14, 19, 24} : s[i] = "-"

IsUuid(s) ==
    /\ Len(s) = 36
    /\ \A i \in 1..36 :
          IF i \in {9, 14, 19, 24} THEN s[i] = "-" ELSE s[i] \in HexDigits

\* ------------------------------------------------------------------------
\* String.prototype.trim
\* ------------------------------------------------------------------------

WhiteSpace == {" ", "\t", "\n"}

\* s has no character that is not white space.
IsBlank(s) == \A k \in 1..Len(s) : s[k] \in WhiteSpace

\* Drops the white space before the first other character.
TrimStart(s) ==
    IF IsBlank(s) THEN <<>>
    ELSE SubSeq(s, CHOOSE k \in 1..Len(s) :
                       /\ s[k] \notin WhiteSpace
                       /\ \A m \in 1..(k - 1) : s[m] \in WhiteSpace,
                Len(s))

\* Drops the white space after the last other character.
TrimEnd(s) ==
    IF IsBlank(s) THEN <<>>
    ELSE SubSeq(s, 1, CHOOSE k \in 1..Len(s) :
                          /\ s[k] \notin WhiteSpace
                          /\ \A m \in (k + 1)..Len(s) : s[m] \in WhiteSpace)

Trim(s) == TrimEnd(TrimStart(s))

\* ------------------------------------------------------------------------
\* Zod schemas.  safeParse yields [success, data, issues]; issues are the
\* messages of the failed rules in the order zod reports them (object keys
\* in declaration order, rules in chain order).
\* ------------------------------------------------------------------------

MsgBadId == "Todo ID must be a valid UUID"
MsgEmptyText == "Todo text cannot be empty"
MsgLongText == "Todo text must be less than 500 characters"

\* Variant: the message is the one of the integer identifiers the actions
\* had before.
todoIdSchemaIntegerMessage(id) ==
    [data |-> id,
     issues |-> IF IsUuid(id) THEN <<>>
                ELSE <<"Todo ID must be a positive integer">>]

todoIdSchema(id) ==
    [data |-> id,
     issues |-> IF IsUuid(id) THEN <<>> ELSE <<MsgBadId>>]

\* Variant: the rules are applied to the text as received, without .trim().
todoTextSchemaNoTrim(text) ==
    [data |-> text,
     issues |-> (IF Len(text) < MinTextLen THEN <<MsgEmptyText>> ELSE <<>>)
                \o (IF Len(text) > MaxTextLen THEN <<MsgLongText>>
                    ELSE <<>>)]

\* Variant: the maximum itself is refused ("less than 500").
todoTextSchemaExclusiveMax(text) ==
    LET t == Trim(text)
    IN  [data |-> t,
         issues |-> (IF Len(t) < MinTextLen THEN <<MsgEmptyText>> ELSE <<>>)
                    \o (IF Len(t) >= MaxTextLen THEN <<MsgLongText>>
                        ELSE <<>>)]

todoTextSchema(text) ==
    LET t == Trim(text)
    IN  [data |-> t,
         issues |-> (IF Len(t) < MinTextLen THEN <<MsgEmptyText>> ELSE <<>>)
                    \o (IF Len(t) > MaxTextLen THEN <<MsgLongText>> ELSE <<>>)]

addTodoSchema(text) ==
    LET t == todoTextSchema(text)
    IN  [success |-> t.issues = <<>>,
         data |-> [id |-> NoString, text |-> t.data],
         issues |-> t.issues]

editTodoSchema(id, text) ==
    LET i == todoIdSchema(id)
        t == todoTextSchema(text)
    IN  [success |-> i.issues \o t.issues = <<>>,
         data |-> [id |-> i.data, text |-> t.data],
         issues |-> i.issues \o t.issues]

todoIdOnlySchema(id) ==
    LET i == todoIdSchema(id)
    IN  [success |-> i.issues = <<>>,
         data |-> [id |-> i.data, text |-> NoString],
         issues |-> i.issues]

\* validation.error.issues.map((err) => err.message).join(", ")
\* Variant: only the first issue is reported.
JoinMessagesFirstOnly(issues) ==
    IF issues = <<>> THEN "" ELSE issues[1]

RECURSIVE JoinMessages(_)
JoinMessages(issues) ==
    IF issues = <<>> THEN ""
    ELSE IF Len(issues) = 1 THEN issues[1]
    ELSE issues[1] \o ", " \o JoinMessages(Tail(issues))

\* ------------------------------------------------------------------------
\* ActionResponse<T> and the catch blocks of the actions
\* ------------------------------------------------------------------------

Success(d) == [success |-> TRUE, data |-> d]
Failure(m) == [success |-> FALSE, error |-> m]

\* The promise of an action that has not resolved yet.
Pending == [pending |-> TRUE]

\* data: undefined of the actions that return no payload
undefined == "undefined"

\* useState<string | null>(null) of useError, and "nothing caught" in a call
null == "null"

MsgNotFound == "Todo not found."

getDataCatch(error) ==
    Failure("Unable to load todos. Please try again later.")

\* Variant: the message of the caught error is returned, as the actions did
\* before they were changed to generic messages.
addTodoCatchErrorMessage(error) ==
    Failure(error)

addTodoCatch(error) ==
    Failure("Unable to create todo. Please try again.")

deleteTodoCatch(error) ==
    Failure("Unable to delete todo. Please try again.")

toggleTodoCatch(error) ==
    Failure("Unable to update todo. Please try again.")

editTodoCatch(error) ==
    Failure("Unable to update todo. Please try again.")

\* Variant: the error is not caught.
CatchBlockRethrow(op, error) ==
    [thrown |-> error]

CatchBlock(op, error) ==
    CASE op = "getData" -> getDataCatch(error)
      [] op = "addTodo" -> addTodoCatch(error)
      [] op = "deleteTodo" -> deleteTodoCatch(error)
      [] op = "toggleTodo" -> toggleTodoCatch(error)
      [] op = "editTodo" -> editTodoCatch(error)

\* Errors the database driver can reject a statement with.
StorageErrors ==
    {"connect ECONNREFUSED 10.0.0.5:5432", "relation todo does not exist"}

\* revalidatePath throws when it runs outside a request scope.
RevalidateErrors == {"Invariant: static generation store missing"}

\* ------------------------------------------------------------------------
\* Inputs
\* ------------------------------------------------------------------------

\* Identifiers gen_random_uuid() hands out.
UuidPool == {U1, U2, U3, U4}

\* Identifiers the client passes: of the first item of the initial table, and
\* malformed.
IdInputs == {U1, BadWord}

\* n times the letter "a"
Letters(n) == [k \in 1..n |-> "a"]

\* Texts the client passes: blank, valid once trimmed, one character too long.
TextInputs == {<<" ">>, <<" ", "b", " ">>, Letters(MaxTextLen + 1)}

Row(id, text, done) == [id |-> id, text |-> text, done |-> done]

\* Content of the table when the page is loaded.
InitialStores ==
    {<<Row(U1, <<"a">>, FALSE), Row(U2, <<"c">>, TRUE)>>}

\* ------------------------------------------------------------------------
\* State
\* ------------------------------------------------------------------------

VARIABLES
    store,      \* rows of table "todo", in insertion order
    issued,     \* identifiers gen_random_uuid() has produced
    todos,      \* useState<todoType[]> of useTodos
    error,      \* useState<string | null> of useError
    calls,      \* per slot: an operation in flight, or the last one finished
    ops,        \* number of operations issued so far
    vInput,     \* input of the validation specification
    vOutput,    \* its result
    timers,     \* useError: pending setTimeout callbacks, by their due time
    clock,      \* time in milliseconds
    shown,      \* message and time of the last showError (for the properties)
    input,      \* useState("") of AddTodo
    isLoading,  \* useState(false) of AddTodo
    event       \* the DOM event AddTodo handled last

errVars == <<timers, clock, shown>>
addVars == <<input, isLoading, event>>

vars ==
    <<store, issued, todos, error, calls, ops, vInput, vOutput,
      timers, clock, shown, input, isLoading, event>>

Ids(rows) == {rows[k].id : k \in 1..Len(rows)}

\* db.select().from(todo).where(eq(todo.id, id)).limit(1)
SelectById(rows, id) ==
    LET found == SelectSeq(rows, LAMBDA r : r.id = id)
    IN  IF found = <<>> THEN <<>> ELSE <<found[1]>>

\* db.update(todo).set({ text }).where(eq(todo.id, id))
\* Variant: the update has no where clause.
UpdateTextEveryRow(rows, id, text) ==
    [k \in 1..Len(rows) |-> [rows[k] EXCEPT !.text = text]]

UpdateText(rows, id, text) ==
    [k \in 1..Len(rows) |->
        IF rows[k].id = id THEN [rows[k] EXCEPT !.text = text] ELSE rows[k]]

\* Variant: done is set, not negated.
UpdateSetDone(rows, id) ==
    [k \in 1..Len(rows) |->
        IF rows[k].id = id THEN [rows[k] EXCEPT !.done = TRUE] ELSE rows[k]]

\* Variant: done is set to the negation of the value the page was loaded
\* with, not of the value the row has.
UpdateNotDoneAsLoaded(rows, id) ==
    LET loaded == SelectById(CHOOSE st \in InitialStores : TRUE, id)
    IN  [k \in 1..Len(rows) |->
            IF rows[k].id = id /\ Len(loaded) > 0
            THEN [rows[k] EXCEPT !.done = ~loaded[1].done] ELSE rows[k]]

\* db.update(todo).set({ done: not(todo.done) }).where(eq(todo.id, id))
UpdateNotDone(rows, id) ==
    [k \in 1..Len(rows) |->
        IF rows[k].id = id THEN [rows[k] EXCEPT !.done = ~@] ELSE rows[k]]

\* db.select().from(todo)
SelectAll(rows) == rows

\* db.insert(todo).values({ text: validText }).returning(): id and done take
\* their column defaults.
\* Variant: the identifier is calculated from the last item the client
\* holds, as it was before identifiers were generated by the database.
IdOrder == <<U1, U2, U3, U4>>

NextIdAfter(items) ==
    IF items = <<>> THEN IdOrder[1]
    ELSE LET p == CHOOSE k \in 1..Len(IdOrder) :
                     IdOrder[k] = items[Len(items)].id
         IN  IdOrder[(p % Len(IdOrder)) + 1]

InsertReturningClientId(rows, id, validText, text) ==
    Append(rows, Row(NextIdAfter(todos), validText, FALSE))

\* Variant: the text as received is stored, not the validated one.
InsertReturningRawText(rows, id, validText, text) ==
    Append(rows, Row(id, text, FALSE))

InsertReturning(rows, id, validText, text) ==
    Append(rows, Row(id, validText, FALSE))

\* db.delete(todo).where(eq(todo.id, id))
DeleteById(rows, id) == SelectSeq(rows, LAMBDA r : r.id # id)

\* The local transformations of useTodos.
OptimisticText(prev, id, text) ==
    [k \in 1..Len(prev) |->
        IF prev[k].id = id THEN [prev[k] EXCEPT !.text = text] ELSE prev[k]]

OptimisticToggle(prev, id) ==
    [k \in 1..Len(prev) |->
        IF prev[k].id = id THEN [prev[k] EXCEPT !.done = ~@] ELSE prev[k]]

\* Variant: the item is deleted on the server only, the collection keeps it.
OptimisticDeleteKeepsItem(prev, id) == prev

OptimisticDelete(prev, id) == SelectSeq(prev, LAMBDA todo : todo.id # id)

\* Variant: the new item is put first.
PrependTodo(prev, data) == <<data>> \o prev

\* setTodos((prev) => [...prev, result.data])
AppendTodo(prev, data) == Append(prev, data)

\* ------------------------------------------------------------------------
\* A call: one controller operation together with the action it awaits.
\*   pc = "idle"      the slot has not been used
\*        "exists"    the action awaits its existence check
\*        "mutate"    the action awaits its insert / update / delete / select
\*        "returned"  the action has resolved, the caller has not resumed
\*        "done"      the caller has resumed; the slot is free again
\*   n  = the ordinal of the operation in invocation order
\*   alone = no other operation has been in flight since this one started
\*           (a record of the history, read by the properties only)
\* ------------------------------------------------------------------------

CallIds == 1..MaxInFlight

IdleCall ==
    [op |-> "none", id |-> NoString, text |-> NoString, n |-> 0,
     originalTodos |-> <<>>, validId |-> NoString, validText |-> NoString,
     pc |-> "idle", result |-> Pending, caught |-> null, accesses |-> 0,
     alone |-> TRUE]

FreeSlots == {i \in CallIds : calls[i].pc \in {"idle", "done"}}

\* The slot a new operation takes: an unused one, else that of the call
\* that finished longest ago.
NewSlot ==
    LET idle == {i \in FreeSlots : calls[i].pc = "idle"}
    IN  IF idle # {} THEN CHOOSE i \in idle : \A j \in idle : i <= j
        ELSE CHOOSE i \in FreeSlots :
                 \A j \in FreeSlots : calls[i].n <= calls[j].n

CanStart == ops < MaxOps /\ FreeSlots # {}

Started(call) ==
    [i \in CallIds |->
        IF i = NewSlot THEN call
        ELSE IF calls[i].pc \in {"idle", "done"} THEN calls[i]
        ELSE [calls[i] EXCEPT !.alone = FALSE]]

\* Variant: addTodo goes on although its text was refused.
SafeParseAddUnchecked(op, id, text) ==
    CASE op = "addTodo" -> [addTodoSchema(text) EXCEPT !.success = TRUE]
      [] op = "editTodo" -> editTodoSchema(id, text)
      [] op \in {"deleteTodo", "toggleTodo"} -> todoIdOnlySchema(id)
      [] op = "getData" ->
            [success |-> TRUE,
             data |-> [id |-> NoString, text |-> NoString],
             issues |-> <<>>]

SafeParse(op, id, text) ==
    CASE op = "addTodo" -> addTodoSchema(text)
      [] op = "editTodo" -> editTodoSchema(id, text)
      [] op \in {"deleteTodo", "toggleTodo"} -> todoIdOnlySchema(id)
      [] op = "getData" ->
            [success |-> TRUE,
             data |-> [id |-> NoString, text |-> NoString],
             issues |-> <<>>]

\* The action up to its first await: validation, and the early return when
\* validation fails.
StartAction(op, id, text, originalTodos) ==
    LET validation == SafeParse(op, id, text)
    IN  [op |-> op, id |-> id, text |-> text, n |-> ops + 1,
         originalTodos |-> originalTodos,
         validId |-> IF validation.success THEN validation.data.id
                     ELSE NoString,
         validText |-> IF validation.success THEN validation.data.text
                       ELSE NoString,
         pc |-> IF ~validation.success THEN "returned"
                ELSE IF op \in {"addTodo", "getData"} THEN "mutate"
                ELSE "exists",
         result |-> IF validation.success THEN Pending
                    ELSE Failure(JoinMessages(validation.issues)),
         caught |-> null,
         accesses |-> 0,
         alone |-> FreeSlots = CallIds]

IsSuccess(r) == "success" \in DOMAIN r /\ r.success
IsFailure(r) == "success" \in DOMAIN r /\ ~r.success

Init ==
    /\ store \in InitialStores
    /\ issued = Ids(store)
    /\ todos = store
    /\ error = null
    /\ calls = [i \in CallIds |-> IdleCall]
    /\ ops = 0
    /\ vInput = [id |-> NoString, text |-> NoString]
    /\ vOutput = Pending
    /\ timers = <<>>
    /\ clock = 0
    /\ shown = [message |-> null, at |-> 0]
    /\ input = NoString
    /\ isLoading = FALSE
    /\ event = "none"

\* ------------------------------------------------------------------------
\* useTodos: the entry points up to their await.  The handlers the
\* components hold are those of the latest render, so the `todos` a handler
\* closes over is the current state.
\* ------------------------------------------------------------------------

\* An insert needs an identifier gen_random_uuid() has not produced yet.
CanCreate ==
    Cardinality(issued)
      + Cardinality({i \in CallIds :
                        calls[i].op = "addTodo" /\ calls[i].pc = "mutate"})
      < Cardinality(UuidPool)

\* createTodo up to its await; what its caller does in the same step is
\* left open.
createTodoAwait(text) ==
    /\ CanStart
    /\ ops' = ops + 1
    /\ CanCreate
    /\ calls' = Started(StartAction("addTodo", NoString, text, <<>>))
    /\ UNCHANGED <<store, issued, todos, error, vInput, vOutput, errVars>>

\* createTodo called with a text, whatever AddTodo holds.
createTodo(text) ==
    /\ createTodoAwait(text)
    /\ UNCHANGED addVars

\* Variant: the collection is captured after the local change.
changeTodoTextLateSnapshot(id, text) ==
    /\ CanStart
    /\ ops' = ops + 1
    /\ todos' = OptimisticText(todos, id, text)
    /\ calls' = Started(StartAction("editTodo", id, text,
                                    OptimisticText(todos, id, text)))
    /\ UNCHANGED <<store, issued, error, vInput, vOutput,
                 errVars, addVars>>

changeTodoText(id, text) ==
    /\ CanStart
    /\ ops' = ops + 1
    /\ todos' = OptimisticText(todos, id, text)
    /\ calls' = Started(StartAction("editTodo", id, text, todos))
    /\ UNCHANGED <<store, issued, error, vInput, vOutput,
                 errVars, addVars>>

toggleIsTodoDone(id) ==
    /\ CanStart
    /\ ops' = ops + 1
    /\ todos' = OptimisticToggle(todos, id)
    /\ calls' = Started(StartAction("toggleTodo", id, NoString, todos))
    /\ UNCHANGED <<store, issued, error, vInput, vOutput,
                 errVars, addVars>>

deleteTodoItem(id) ==
    /\ CanStart
    /\ ops' = ops + 1
    /\ todos' = OptimisticDelete(todos, id)
    /\ calls' = Started(StartAction("deleteTodo", id, NoString, todos))
    /\ UNCHANGED <<store, issued, error, vInput, vOutput,
                 errVars, addVars>>

\* page.tsx: const result = await getData()
Home ==
    /\ CanStart
    /\ ops' = ops + 1
    /\ calls' = Started(StartAction("getData", NoString, NoString, <<>>))
    /\ UNCHANGED <<store, issued, todos, error, vInput, vOutput,
                 errVars, addVars>>

\* ------------------------------------------------------------------------
\* The actions after their first await
\* ------------------------------------------------------------------------

\* Variant: an update or delete that met no row is reported as a missing
\* item.
ReturnNotFoundWhenNoRow(c, data, revalidate) ==
    IF c.op \in {"editTodo", "toggleTodo", "deleteTodo"}
         /\ c.validId \notin Ids(store)
    THEN [c EXCEPT !.pc = "returned", !.result = Failure(MsgNotFound),
                   !.accesses = @ + 1]
    ELSE IF revalidate = "ok"
    THEN [c EXCEPT !.pc = "returned", !.result = Success(data),
                   !.accesses = @ + 1]
    ELSE [c EXCEPT !.pc = "returned",
                   !.result = CatchBlock(c.op, revalidate),
                   !.caught = revalidate, !.accesses = @ + 1]

\* The statement after the mutation: revalidatePath("/") and the return, or
\* the catch block when revalidatePath throws.
Return(c, data, revalidate) ==
    IF revalidate = "ok"
    THEN [c EXCEPT !.pc = "returned", !.result = Success(data),
                   !.accesses = @ + 1]
    ELSE [c EXCEPT !.pc = "returned",
                   !.result = CatchBlock(c.op, revalidate),
                   !.caught = revalidate, !.accesses = @ + 1]

RevalidateOutcomes == {"ok"} \cup RevalidateErrors

\* editTodo / toggleTodo / deleteTodo: the existence check resolves.
SelectExisting(i) ==
    /\ calls[i].pc = "exists"
    /\ LET c == calls[i]
           existing == SelectById(store, c.validId)
       IN  calls' = [calls EXCEPT ![i] =
                IF Len(existing) = 0
                THEN [c EXCEPT !.pc = "returned",
                               !.result = Failure(MsgNotFound),
                               !.accesses = @ + 1]
                ELSE [c EXCEPT !.pc = "mutate", !.accesses = @ + 1]]
    /\ UNCHANGED <<ops, store, issued, todos, error, vInput, vOutput,
                 errVars, addVars>>

\* Any awaited statement rejects: the catch block of the action runs.
DbThrows(i) ==
    /\ calls[i].pc \in {"exists", "mutate"}
    /\ \E e \in StorageErrors :
          calls' = [calls EXCEPT ![i] =
                [@ EXCEPT !.pc = "returned",
                          !.result = CatchBlock(calls[i].op, e),
                          !.caught = e, !.accesses = @ + 1]]
    /\ UNCHANGED <<ops, store, issued, todos, error, vInput, vOutput,
                 errVars, addVars>>

getDataSelect(i) ==
    /\ calls[i].op = "getData" /\ calls[i].pc = "mutate"
    /\ calls' = [calls EXCEPT ![i] =
            [@ EXCEPT !.pc = "returned",
                      !.result = Success(SelectAll(store)),
                      !.accesses = @ + 1]]
    /\ UNCHANGED <<ops, store, issued, todos, error, vInput, vOutput,
                 errVars, addVars>>

addTodoInsert(i) ==
    /\ calls[i].op = "addTodo" /\ calls[i].pc = "mutate"
    /\ \E id \in UuidPool \ issued, rv \in RevalidateOutcomes :
          LET inserted == InsertReturning(store, id, calls[i].validText,
                                          calls[i].text)
              newTodo == inserted[Len(inserted)]
          IN  /\ store' = inserted
              /\ issued' = issued \cup {id}
              /\ calls' = [calls EXCEPT ![i] = Return(@, newTodo, rv)]
    /\ UNCHANGED <<ops, todos, error, vInput, vOutput,
                 errVars, addVars>>

deleteTodoDelete(i) ==
    /\ calls[i].op = "deleteTodo" /\ calls[i].pc = "mutate"
    /\ store' = DeleteById(store, calls[i].validId)
    /\ \E rv \in RevalidateOutcomes :
          calls' = [calls EXCEPT ![i] = Return(@, undefined, rv)]
    /\ UNCHANGED <<ops, issued, todos, error, vInput, vOutput,
                 errVars, addVars>>

toggleTodoUpdate(i) ==
    /\ calls[i].op = "toggleTodo" /\ calls[i].pc = "mutate"
    /\ store' = UpdateNotDone(store, calls[i].validId)
    /\ \E rv \in RevalidateOutcomes :
          calls' = [calls EXCEPT ![i] = Return(@, undefined, rv)]
    /\ UNCHANGED <<ops, issued, todos, error, vInput, vOutput,
                 errVars, addVars>>

editTodoUpdate(i) ==
    /\ calls[i].op = "editTodo" /\ calls[i].pc = "mutate"
    /\ store' = UpdateText(store, calls[i].validId, calls[i].validText)
    /\ \E rv \in RevalidateOutcomes :
          calls' = [calls EXCEPT ![i] = Return(@, undefined, rv)]
    /\ UNCHANGED <<ops, issued, todos, error, vInput, vOutput,
                 errVars, addVars>>

\* ------------------------------------------------------------------------
\* useTodos: the entry points after their await
\* ------------------------------------------------------------------------

\* The locals of the call go out of scope; what it was and how it ended
\* stays visible until the slot is taken again.
Resumed(i) ==
    [calls EXCEPT ![i] =
        [IdleCall EXCEPT !.op = calls[i].op, !.id = calls[i].id,
                         !.text = calls[i].text, !.n = calls[i].n,
                         !.result = calls[i].result, !.pc = "done",
                         !.alone = calls[i].alone]]

\* createTodo after its await; what its caller does when it has resolved is
\* left open.
createTodoSettle(i) ==
    /\ calls[i].op = "addTodo" /\ calls[i].pc = "returned"
    /\ LET result == calls[i].result
       IN  IF result.success
           THEN todos' = AppendTodo(todos, result.data) /\ error' = error
           ELSE todos' = todos /\ error' = result.error
    /\ calls' = Resumed(i)
    /\ UNCHANGED <<ops, store, issued, vInput, vOutput, errVars>>

createTodoResume(i) ==
    /\ createTodoSettle(i)
    /\ UNCHANGED addVars

\* Variant: the error is reported, the snapshot is not restored.
ReportOnly(i) ==
    LET result == calls[i].result
    IN  IF ~result.success
        THEN todos' = todos /\ error' = result.error
        ELSE todos' = todos /\ error' = error

\* Variant: after a success the collection is replaced by what the server
\* holds.
RefetchOnSuccess(i) ==
    LET result == calls[i].result
    IN  IF ~result.success
        THEN todos' = calls[i].originalTodos /\ error' = result.error
        ELSE todos' = SelectAll(store) /\ error' = error

\* Variant: a failure puts back the item of the call only, the rest of the
\* collection stays as it is.
RollbackOwnItem(i) ==
    LET result == calls[i].result
        saved == SelectById(calls[i].originalTodos, calls[i].id)
        restored == [k \in 1..Len(todos) |->
                        IF todos[k].id = calls[i].id /\ Len(saved) > 0
                        THEN saved[1] ELSE todos[k]]
    IN  IF ~result.success
        THEN /\ todos' = IF calls[i].id \in Ids(todos) THEN restored
                         ELSE todos \o saved
             /\ error' = result.error
        ELSE todos' = todos /\ error' = error

\* Variant: a failed delete puts the removed item back at the end of the
\* collection as it is by then.
RollbackReinsert(i) ==
    LET result == calls[i].result
        saved == SelectById(calls[i].originalTodos, calls[i].id)
    IN  IF ~result.success
        THEN /\ todos' = IF calls[i].op = "deleteTodo" THEN todos \o saved
                         ELSE calls[i].originalTodos
             /\ error' = result.error
        ELSE todos' = todos /\ error' = error

\* changeTodoText, toggleIsTodoDone and deleteTodoItem end alike.
Rollback(i) ==
    LET result == calls[i].result
    IN  IF ~result.success
        THEN todos' = calls[i].originalTodos /\ error' = result.error
        ELSE todos' = todos /\ error' = error

changeTodoTextResume(i) ==
    /\ calls[i].op = "editTodo" /\ calls[i].pc = "returned"
    /\ Rollback(i)
    /\ calls' = Resumed(i)
    /\ UNCHANGED <<ops, store, issued, vInput, vOutput,
                 errVars, addVars>>

toggleIsTodoDoneResume(i) ==
    /\ calls[i].op = "toggleTodo" /\ calls[i].pc = "returned"
    /\ Rollback(i)
    /\ calls' = Resumed(i)
    /\ UNCHANGED <<ops, store, issued, vInput, vOutput,
                 errVars, addVars>>

deleteTodoItemResume(i) ==
    /\ calls[i].op = "deleteTodo" /\ calls[i].pc = "returned"
    /\ Rollback(i)
    /\ calls' = Resumed(i)
    /\ UNCHANGED <<ops, store, issued, vInput, vOutput,
                 errVars, addVars>>

\* page.tsx renders the result; the controller of this session is not
\* touched.
HomeResume(i) ==
    /\ calls[i].op = "getData" /\ calls[i].pc = "returned"
    /\ calls' = Resumed(i)
    /\ UNCHANGED <<ops, store, issued, todos, error, vInput, vOutput,
                 errVars, addVars>>

Next ==
    \/ \E text \in TextInputs : createTodo(text)
    \/ \E id \in IdInputs, text \in TextInputs : changeTodoText(id, text)
    \/ \E id \in IdInputs : toggleIsTodoDone(id)
    \/ \E id \in IdInputs : deleteTodoItem(id)
    \/ Home
    \/ \E i \in CallIds : SelectExisting(i)
    \/ \E i \in CallIds : DbThrows(i)
    \/ \E i \in CallIds : getDataSelect(i)
    \/ \E i \in CallIds : addTodoInsert(i)
    \/ \E i \in CallIds : deleteTodoDelete(i)
    \/ \E i \in CallIds : toggleTodoUpdate(i)
    \/ \E i \in CallIds : editTodoUpdate(i)
    \/ \E i \in CallIds : createTodoResume(i)
    \/ \E i \in CallIds : changeTodoTextResume(i)
    \/ \E i \in CallIds : toggleIsTodoDoneResume(i)
    \/ \E i \in CallIds : deleteTodoItemResume(i)
    \/ \E i \in CallIds : HomeResume(i)

Spec == Init /\ [][Next]_vars

\* ------------------------------------------------------------------------
\* The schemas on their own: every identifier and text of a bounded
\* universe is parsed, and a text that passed is parsed again.
\* ------------------------------------------------------------------------

MalformedIds ==
    {NoString, BadWord, BadInteger, BadShort, BadLong, BadChar, BadNoHyphen,
     BadHyphenPos, BadPadded, BadZero, BadNegative, BadFraction}

AllIds == UuidPool \cup MalformedIds

TextAlphabet == {" ", "\t", "a"}

RECURSIVE TextsUpTo(_)
TextsUpTo(n) ==
    IF n = 0 THEN {<<>>}
    ELSE LET shorter == TextsUpTo(n - 1)
         IN  shorter \cup {Append(t, ch) : t \in shorter, ch \in TextAlphabet}

Blanks(n) == [k \in 1..n |-> " "]

\* Texts around the maximum length, before and after trimming.
BoundaryTexts ==
    {Letters(MaxTextLen - 1), Letters(MaxTextLen), Letters(MaxTextLen + 1),
     <<" ">> \o Letters(MaxTextLen) \o <<"\n">>,
     <<"\t">> \o Letters(MaxTextLen + 1),
     Blanks(MaxTextLen + 1)}

AllTexts == TextsUpTo(MaxShortLen) \cup BoundaryTexts

InitValidate ==
    /\ store = <<>>
    /\ issued = {}
    /\ todos = <<>>
    /\ error = null
    /\ calls = [i \in CallIds |-> IdleCall]
    /\ ops = 0
    /\ vInput \in [id : AllIds, text : AllTexts]
    /\ vOutput = Pending
    /\ timers = <<>>
    /\ clock = 0
    /\ shown = [message |-> null, at |-> 0]
    /\ input = NoString
    /\ isLoading = FALSE
    /\ event = "none"

\* schema.safeParse(...) and the message the actions build from the issues
Parsed(id, text, pass) ==
    [pass |-> pass,
     id |-> todoIdSchema(id),
     text |-> todoTextSchema(text),
     add |-> addTodoSchema(text),
     edit |-> editTodoSchema(id, text),
     idOnly |-> todoIdOnlySchema(id),
     message |-> JoinMessages(editTodoSchema(id, text).issues)]

ParseInput ==
    /\ vOutput = Pending
    /\ vOutput' = Parsed(vInput.id, vInput.text, 1)
    /\ UNCHANGED <<store, issued, todos, error, calls, ops, vInput,
                 errVars, addVars>>

\* What validation returned is validated once more.
ParseAgain ==
    /\ vOutput # Pending
    /\ vOutput.pass = 1
    /\ vOutput.edit.success
    /\ vInput' = vOutput.edit.data
    /\ vOutput' = Parsed(vOutput.edit.data.id, vOutput.edit.data.text, 2)
    /\ UNCHANGED <<store, issued, todos, error, calls, ops,
                 errVars, addVars>>

NextValidate == ParseInput \/ ParseAgain

SpecValidate == InitValidate /\ [][NextValidate]_vars

\* ------------------------------------------------------------------------
\* One edit, toggle or delete with an identifier of the whole identifier
\* universe, run to its end.
\* ------------------------------------------------------------------------

NextIds ==
    \/ \E id \in AllIds, text \in TextInputs :
          ops = 0 /\ changeTodoText(id, text)
    \/ \E id \in AllIds : ops = 0 /\ toggleIsTodoDone(id)
    \/ \E id \in AllIds : ops = 0 /\ deleteTodoItem(id)
    \/ \E i \in CallIds : SelectExisting(i)
    \/ \E i \in CallIds : DbThrows(i)
    \/ \E i \in CallIds : deleteTodoDelete(i)
    \/ \E i \in CallIds : toggleTodoUpdate(i)
    \/ \E i \in CallIds : editTodoUpdate(i)
    \/ \E i \in CallIds : changeTodoTextResume(i)
    \/ \E i \in CallIds : toggleIsTodoDoneResume(i)
    \/ \E i \in CallIds : deleteTodoItemResume(i)

SpecIds == Init /\ [][NextIds]_vars

\* ------------------------------------------------------------------------
\* useError on its own: errors are reported, dismissed by the user and by
\* the timeouts, while time passes.  A timeout runs when it is due: time
\* does not pass over the due time of a pending timeout.
\* ------------------------------------------------------------------------

todoVars == <<store, issued, todos, calls, ops, vInput, vOutput>>

\* Messages reported to showError.
Reported ==
    {"Todo not found.", "Unable to update todo. Please try again."}

\* Time that passes between two events, in milliseconds.
Delays == {1000, 2000}

\* setError(message); setTimeout(() => setError(null), dismissAfter)
showError(message) ==
    /\ Len(timers) < MaxTimers
    /\ error' = message
    /\ timers' = Append(timers, clock + DismissAfter)
    /\ shown' = [message |-> message, at |-> clock]
    /\ UNCHANGED <<clock, todoVars, addVars>>

\* setError(null)
clearError ==
    /\ error' = null
    /\ UNCHANGED <<timers, clock, shown, todoVars, addVars>>

\* () => setError(null), the callback of the timeout that is due first
TimerFires ==
    /\ timers # <<>>
    /\ timers[1] <= clock
    /\ error' = null
    /\ timers' = Tail(timers)
    /\ UNCHANGED <<clock, shown, todoVars, addVars>>

Wait(d) ==
    /\ clock + d <= MaxClock
    /\ \A k \in 1..Len(timers) : clock + d <= timers[k]
    /\ clock' = clock + d
    /\ UNCHANGED <<error, timers, shown, todoVars, addVars>>

NextError ==
    \/ \E message \in Reported : showError(message)
    \/ clearError
    \/ TimerFires
    \/ \E d \in Delays : Wait(d)

SpecError == Init /\ [][NextError]_vars

\* ------------------------------------------------------------------------
\* AddTodo with the createTodo of useTodos as its prop: the user types,
\* clicks the button and presses keys while creates are in flight.  The
\* handlers guard themselves, so they are run whether or not the elements
\* are disabled.  The call of the action can also reject (the request or
\* its response is lost): createTodo has no catch block and rejects too.
\* ------------------------------------------------------------------------

\* Values typed into the input field.
AddInputs == {NoString} \cup TextInputs

Keys == {"Enter", "a"}

\* Errors the call of a server action rejects with.
TransportErrors == {"TypeError: fetch failed"}

\* setInput(e.target.value); the field is disabled while a create runs.
handleInput(value) ==
    /\ ~isLoading
    /\ input' = value
    /\ event' = "change"
    /\ UNCHANGED <<isLoading, todoVars, error, errVars>>

\* if (isLoading || !input.trim()) return;
\* Variant: a create that is running does not stop the next one.
CanSubmitWhileLoading == Trim(input) # <<>>

CanSubmit == ~isLoading /\ Trim(input) # <<>>

\* handleAdd up to its await.
handleAdd ==
    IF CanSubmit
    THEN /\ isLoading' = TRUE
         /\ input' = input
         /\ createTodoAwait(input)
    ELSE UNCHANGED <<input, isLoading, todoVars, error, errVars>>

onClick ==
    /\ event' = "click"
    /\ handleAdd

handleKeyPress(key) ==
    /\ event' = "keypress"
    /\ IF key = "Enter" /\ ~isLoading /\ Trim(input) # <<>>
       THEN handleAdd
       ELSE UNCHANGED <<input, isLoading, todoVars, error, errVars>>

\* The promise of addTodo rejects, before or after the action has run.
addTodoRejects(i) ==
    /\ calls[i].op = "addTodo"
    /\ calls[i].pc \in {"mutate", "returned"}
    /\ \E e \in TransportErrors :
          calls' = [calls EXCEPT ![i] =
                [@ EXCEPT !.pc = "rejected", !.result = [thrown |-> e]]]
    /\ UNCHANGED <<ops, store, issued, todos, error, vInput, vOutput,
                 errVars, addVars>>

\* handleAdd after createTodo has resolved: setInput(""), then the finally
\* block.  The continuation of createTodo and this one run in the same turn
\* of the event loop.
handleAddResume(i) ==
    /\ createTodoSettle(i)
    /\ input' = NoString
    /\ isLoading' = FALSE
    /\ event' = event

\* handleAdd after createTodo has rejected: the catch block, then the
\* finally block.
handleAddCatch(i) ==
    /\ calls[i].op = "addTodo" /\ calls[i].pc = "rejected"
    /\ calls' = Resumed(i)
    /\ isLoading' = FALSE
    /\ UNCHANGED <<input, event, ops, store, issued, todos, error, vInput,
                 vOutput, errVars>>

NextAdd ==
    \/ \E value \in AddInputs : handleInput(value)
    \/ onClick
    \/ \E key \in Keys : handleKeyPress(key)
    \/ \E i \in CallIds : addTodoInsert(i)
    \/ \E i \in CallIds : DbThrows(i)
    \/ \E i \in CallIds : addTodoRejects(i)
    \/ \E i \in CallIds : handleAddResume(i)
    \/ \E i \in CallIds : handleAddCatch(i)

SpecAdd == Init /\ [][NextAdd]_vars

\* ------------------------------------------------------------------------
\* useTodos under well-formed calls: the four entry points called on the
\* items the page shows, any number of them in flight together.  Every
\* action can still fail: the row may be gone, the storage or the
\* revalidation may throw.
\* ------------------------------------------------------------------------

RaceIds == {U1}

RaceTexts == {<<" ", "b", " ">>}

NextRace ==
    \/ \E text \in RaceTexts : createTodo(text)
    \/ \E id \in RaceIds, text \in RaceTexts : changeTodoText(id, text)
    \/ \E id \in RaceIds : toggleIsTodoDone(id)
    \/ \E id \in RaceIds : deleteTodoItem(id)
    \/ \E i \in CallIds : SelectExisting(i)
    \/ \E i \in CallIds : DbThrows(i)
    \/ \E i \in CallIds : addTodoInsert(i)
    \/ \E i \in CallIds : deleteTodoDelete(i)
    \/ \E i \in CallIds : toggleTodoUpdate(i)
    \/ \E i \in CallIds : editTodoUpdate(i)
    \/ \E i \in CallIds : createTodoResume(i)
    \/ \E i \in CallIds : changeTodoTextResume(i)
    \/ \E i \in CallIds : toggleIsTodoDoneResume(i)
    \/ \E i \in CallIds : deleteTodoItemResume(i)

SpecRace == Init /\ [][NextRace]_vars

\* ========================================================================
\* Properties
\* ========================================================================

Range(seq) == {seq[k] : k \in 1..Len(seq)}

InFlight(c) == c.pc \in {"exists", "mutate", "returned"}
Resolved(c) == c.pc \in {"returned", "done"}

\* r is s without its leading and trailing white space, stated on positions
\* and not by the way Trim computes it.
IsTrimOf(r, s) ==
    /\ r = <<>> \/ (r[1] \notin WhiteSpace /\ r[Len(r)] \notin WhiteSpace)
    /\ \E lead \in 0..Len(s) :
          /\ lead + Len(r) <= Len(s)
          /\ \A k \in 1..Len(r) : r[k] = s[lead + k]
          /\ \A k \in 1..Len(s) :
                (k <= lead \/ k > lead + Len(r)) => s[k] \in WhiteSpace

\* The text fails validation: nothing but white space, or more than 500
\* characters between the first and the last character that is not.
TextInvalid(s) ==
    \/ \A k \in 1..Len(s) : s[k] \in WhiteSpace
    \/ \E a \in 1..Len(s) :
          /\ s[a] \notin WhiteSpace
          /\ \E b \in (a + 500)..Len(s) : s[b] \notin WhiteSpace

\* ------------------------------------------------------------------------
\* C8 (SpecValidate).  Text validation fails exactly when the trimmed text
\* is empty or longer than 500 characters; otherwise it yields the trimmed
\* text, and a valid text that is already trimmed is returned as it is.
\* ------------------------------------------------------------------------
TextValidation ==
    vOutput # Pending =>
        LET s == vInput.text
            out == vOutput.text
            fails == out.issues # <<>>
        IN  /\ fails <=> TextInvalid(s)
            /\ fails <=> ~vOutput.add.success
            /\ ~fails => /\ IsTrimOf(out.data, s)
                         /\ Len(out.data) >= 1 /\ Len(out.data) <= 500
                         /\ vOutput.add.data.text = out.data
            /\ (~fails /\ IsTrimOf(s, s)) => out.data = s
            /\ (~fails /\ vOutput.pass = 2) => out.data = s

\* A padded text of 502 characters was accepted as its 500 inner characters,
\* and these were accepted unchanged when validated again.
TextValidationWitness ==
    /\ vOutput # Pending
    /\ vOutput.pass = 2
    /\ Len(vInput.text) = 500
    /\ vOutput.text.issues = <<>>
    /\ vOutput.text.data = vInput.text

Actions4 == {"addTodo", "editTodo", "toggleTodo", "deleteTodo"}
Optimistic3 == {"editTodo", "toggleTodo", "deleteTodo"}

\* The slot is taken by a new call in this step.
Starts(i) ==
    /\ calls[i].pc \in {"idle", "done"}
    /\ calls'[i].pc \notin {"idle", "done"}

\* The caller of the call in the slot resumes in this step.
Resumes(i) == calls[i].pc = "returned" /\ calls'[i].pc = "done"

\* The action of the call in the slot resolves in this step.
Returns(i) ==
    /\ calls[i].pc \in {"exists", "mutate"}
    /\ calls'[i].pc = "returned"

\* ------------------------------------------------------------------------
\* C1.  Rollback law: changeTodoText, toggleIsTodoDone and deleteTodoItem
\* capture the collection as it is when they are called, and when their
\* action returns failure the collection after the call is that captured
\* collection: same items, same order, same id/text/done.  (It holds
\* whether or not other operations are in flight.)
\* ------------------------------------------------------------------------
RollbackLaw ==
    [][\A i \in CallIds :
          /\ (Starts(i) /\ calls'[i].op \in Optimistic3)
                => calls'[i].originalTodos = todos
          /\ (Resumes(i) /\ calls[i].op \in Optimistic3
                /\ IsFailure(calls[i].result))
                => todos' = calls[i].originalTodos]_vars

\* deleteTodoItem(U1) ran alone as the only operation, its action failed, and
\* the collection is the initial one again, U1 included.
RollbackWitness ==
    \E i \in CallIds :
        /\ calls[i].op = "deleteTodo" /\ calls[i].id = U1
        /\ calls[i].pc = "done" /\ calls[i].alone /\ ops = 1
        /\ IsFailure(calls[i].result)
        /\ error = calls[i].result.error
        /\ todos \in InitialStores
        /\ U1 \in Ids(todos)

\* ------------------------------------------------------------------------
\* C2.  An action whose input fails validation returns a failure carrying
\* the validation messages, issues no statement against the store, and the
\* store is unchanged.
\* ------------------------------------------------------------------------
HasId(c) == c.op \in Optimistic3
HasText(c) == c.op \in {"addTodo", "editTodo"}

InputInvalid(c) ==
    \/ HasId(c) /\ c.id \in MalformedIds
    \/ HasText(c) /\ TextInvalid(c.text)

ExpectedIssues(c) ==
    (IF HasId(c) /\ c.id \in MalformedIds THEN <<MsgBadId>> ELSE <<>>)
    \o (IF HasText(c) /\ TextInvalid(c.text)
        THEN IF \A k \in 1..Len(c.text) : c.text[k] \in WhiteSpace
             THEN <<MsgEmptyText>> ELSE <<MsgLongText>>
        ELSE <<>>)

ExpectedMessage(c) ==
    LET e == ExpectedIssues(c)
    IN  IF Len(e) = 1 THEN e[1] ELSE e[1] \o ", " \o e[2]

ValidationStopsAction(c) ==
    (c.op \in Actions4 /\ InputInvalid(c)) =>
        /\ Resolved(c)
        /\ c.result = Failure(ExpectedMessage(c))
        /\ c.accesses = 0

ValidationFailureNoStoreAccess ==
    [][\A i \in CallIds :
          /\ ValidationStopsAction(calls'[i])
          /\ (calls'[i] # calls[i] /\ calls'[i].op \in Actions4
                /\ InputInvalid(calls'[i]))
                => store' = store]_vars

\* editTodo with a malformed identifier and a blank text has returned both
\* messages without a statement issued.
ValidationFailureWitness ==
    \E i \in CallIds :
        /\ calls[i].op = "editTodo" /\ calls[i].pc = "returned"
        /\ calls[i].id = BadWord /\ calls[i].text = <<" ">>
        /\ calls[i].result = Failure(MsgBadId \o ", " \o MsgEmptyText)
        /\ calls[i].accesses = 0

\* ------------------------------------------------------------------------
\* C3.  editTodo, toggleTodo and deleteTodo with a valid identifier that is
\* not in the store return a failure whose message is exactly
\* "Todo not found", and leave the store unchanged.
\* ------------------------------------------------------------------------
NotFoundMessage ==
    [][\A i \in CallIds :
          (/\ calls[i].op \in Optimistic3
           /\ calls[i].pc = "exists"
           /\ calls[i].validId \notin Ids(store)
           /\ calls'[i].pc = "returned"
           /\ calls'[i].caught = null)
          => /\ calls'[i].result = Failure("Todo not found")
             /\ store' = store]_vars

\* ------------------------------------------------------------------------
\* C4.  createTodo never inserts a provisional item: no step of a create,
\* from its invocation to the resolution of its action, changes the
\* collection; when the caller resumes with success the returned item is
\* appended at the end, with failure the collection is untouched and the
\* error is reported through onError.
\* ------------------------------------------------------------------------
CreateAppendsOnSuccess ==
    [][\A i \in CallIds :
          /\ (Starts(i) /\ calls'[i].op = "addTodo") => todos' = todos
          /\ (Returns(i) /\ calls[i].op = "addTodo") => todos' = todos
          /\ (Resumes(i) /\ calls[i].op = "addTodo") =>
                IF IsSuccess(calls[i].result)
                THEN /\ Len(todos') = Len(todos) + 1
                     /\ \A k \in 1..Len(todos) : todos'[k] = todos[k]
                     /\ todos'[Len(todos')] = calls[i].result.data
                     /\ calls[i].result.data.id \in issued
                     /\ error' = error
                ELSE /\ todos' = todos
                     /\ error' = calls[i].result.error]_vars

\* A create has resumed with success after an item of the initial table,
\* and its item is the last of the collection.
CreateWitness ==
    \E i \in CallIds :
        /\ calls[i].op = "addTodo" /\ calls[i].pc = "done"
        /\ IsSuccess(calls[i].result)
        /\ Len(todos) >= 2
        /\ todos[1].id = U1
        /\ todos[Len(todos)] = calls[i].result.data

\* ------------------------------------------------------------------------
\* C5.  Create round-trip: when addTodo(text) succeeds, what getData reads
\* from the store right after the insert is the previous content plus
\* exactly one new entry, whose text is the trimmed input and whose done is
\* false; the item addTodo returns is that entry, identifier included.
\* ------------------------------------------------------------------------
CreateRoundTrip ==
    [][\A i \in CallIds :
          (Returns(i) /\ calls[i].op = "addTodo"
             /\ IsSuccess(calls'[i].result))
          => LET listing == SelectAll(store')
                 new == calls'[i].result.data
             IN  /\ ~TextInvalid(calls[i].text)
                 /\ Len(listing) = Len(store) + 1
                 /\ Range(listing) = Range(store) \cup {new}
                 /\ new \notin Range(store)
                 /\ new.id \notin Ids(store)
                 /\ IsTrimOf(new.text, calls[i].text)
                 /\ new.done = FALSE]_vars

\* addTodo(" b ") succeeded, then getData ran alone and listed the initial
\* rows followed by the new row with text "b".
CreateRoundTripWitness ==
    \E i, j \in CallIds :
        /\ calls[i].op = "addTodo" /\ calls[i].text = <<" ", "b", " ">>
        /\ calls[i].pc = "done" /\ calls[i].n = 1
        /\ IsSuccess(calls[i].result)
        /\ calls[j].op = "getData" /\ calls[j].pc = "returned"
        /\ calls[j].alone /\ calls[j].n = 2
        /\ IsSuccess(calls[j].result)
        /\ LET data == calls[j].result.data
           IN  /\ data[Len(data)] = calls[i].result.data
               /\ data[Len(data)].text = <<"b">>
               /\ SubSeq(data, 1, Len(data) - 1) \in InitialStores

\* ------------------------------------------------------------------------
\* C6.  Storage failures are not echoed: whatever error an action catches,
\* it returns the fixed generic message of that action, so two calls of the
\* same action that caught different errors return the same result, and the
\* message is none of the errors.
\* ------------------------------------------------------------------------
FixedMessage(op) ==
    CASE op = "getData" -> "Unable to load todos. Please try again later."
      [] op = "addTodo" -> "Unable to create todo. Please try again."
      [] op = "deleteTodo" -> "Unable to delete todo. Please try again."
      [] op \in {"toggleTodo", "editTodo"} ->
            "Unable to update todo. Please try again."

StorageErrorsNotEchoed ==
    /\ \A i \in CallIds :
          (calls[i].pc = "returned" /\ calls[i].caught # null) =>
              /\ calls[i].result = Failure(FixedMessage(calls[i].op))
              /\ calls[i].result.error # calls[i].caught
              /\ calls[i].result.error
                    \notin StorageErrors \cup RevalidateErrors
    /\ \A i, j \in CallIds :
          (/\ calls[i].pc = "returned" /\ calls[j].pc = "returned"
           /\ calls[i].caught # null /\ calls[j].caught # null
           /\ calls[i].op = calls[j].op)
          => calls[i].result = calls[j].result

\* Two addTodo calls caught two different storage errors and returned the
\* same failure.
StorageErrorsWitness ==
    \E i, j \in CallIds :
        /\ calls[i].op = "addTodo" /\ calls[j].op = "addTodo"
        /\ calls[i].pc = "returned" /\ calls[j].pc = "returned"
        /\ calls[i].caught \in StorageErrors
        /\ calls[j].caught \in StorageErrors
        /\ calls[i].caught # calls[j].caught
        /\ calls[i].result = calls[j].result

\* ------------------------------------------------------------------------
\* C7.  No action throws to its caller: a call that has resolved, whatever
\* its input and whichever statement failed, holds exactly one of the two
\* result variants: success with data, or failure with an error message; a
\* call has no result only while its action is still running.
\* ------------------------------------------------------------------------
ValidationMessages ==
    {MsgBadId, MsgEmptyText, MsgLongText,
     MsgBadId \o ", " \o MsgEmptyText, MsgBadId \o ", " \o MsgLongText}

ErrorMessages ==
    ValidationMessages \cup {MsgNotFound}
        \cup {FixedMessage(op) : op \in Actions4 \cup {"getData"}}

IsActionResponse(r) ==
    \/ DOMAIN r = {"success", "data"} /\ r.success = TRUE
    \/ /\ DOMAIN r = {"success", "error"}
       /\ r.success = FALSE
       /\ r.error \in ErrorMessages

ActionsNeverThrow ==
    \A i \in CallIds :
        /\ Resolved(calls[i]) => IsActionResponse(calls[i].result)
        /\ calls[i].pc \in {"idle", "exists", "mutate"}
              => calls[i].result = Pending

\* The update of a toggleTodo was rejected by the database after its
\* existence check had passed, and the call resolved to a failure.
NeverThrowWitness ==
    \E i \in CallIds :
        /\ calls[i].op = "toggleTodo" /\ calls[i].pc = "returned"
        /\ calls[i].accesses = 2
        /\ calls[i].caught \in StorageErrors
        /\ IsFailure(calls[i].result)

\* ------------------------------------------------------------------------
\* C9 (SpecIds).  editTodo, toggleTodo and deleteTodo reject every malformed
\* identifier with a validation failure; a well-formed identifier passes
\* validation and is the one looked up by the existence check and the one
\* whose row the mutation changes.
\* ------------------------------------------------------------------------
IdRule(c) ==
    c.op \in Optimistic3 =>
        /\ c.id \in MalformedIds =>
              /\ Resolved(c)
              /\ IsFailure(c.result)
              /\ c.result.error \in ValidationMessages \ {MsgEmptyText,
                                                          MsgLongText}
              /\ c.accesses = 0
        /\ (c.id \in UuidPool /\ Resolved(c) /\ IsFailure(c.result)) =>
              c.result.error \in {MsgEmptyText, MsgLongText, MsgNotFound,
                                  FixedMessage(c.op)}
        /\ (c.id \in UuidPool /\ c.pc \in {"exists", "mutate"}) =>
              c.validId = c.id

\* Rows of the store with another identifier than id.
Others(rows, id) == SelectSeq(rows, LAMBDA r : r.id # id)

\* What the mutation of call c makes of the row `before`.
MutatedRow(c, before, after) ==
    CASE c.op = "deleteTodo" -> after = <<>>
      [] c.op = "toggleTodo" ->
            after = <<[before EXCEPT !.done = ~before.done]>>
      [] c.op = "editTodo" ->
            /\ Len(after) = 1
            /\ after[1].id = before.id /\ after[1].done = before.done
            /\ IsTrimOf(after[1].text, c.text)

OriginalDone(X) ==
    LET st == CHOOSE st \in InitialStores : X \in Ids(st)
    IN  SelectById(st, X)[1].done

TogglePair(X, i, j) ==
    /\ ops = 2
    /\ i # j
    /\ calls[i].n = 1 /\ calls[j].n = 2
    /\ calls[i].op = "toggleTodo" /\ calls[j].op = "toggleTodo"
    /\ calls[i].id = X /\ calls[j].id = X
    /\ calls[i].alone /\ calls[j].alone
    /\ Resolved(calls[i]) /\ Resolved(calls[j])
    /\ X \in Ids(store)

DoneOf(rows, X) == SelectById(rows, X)[1].done

\* C10 as claimed: both toggles succeed, and the item's done is its original
\* value in the store and, once both callers have resumed, in the
\* collection.
TogglePairAlwaysSucceeds ==
    \A X \in {U1, U2} : \A i, j \in CallIds :
        TogglePair(X, i, j) =>
            /\ IsSuccess(calls[i].result) /\ IsSuccess(calls[j].result)
            /\ DoneOf(store, X) = OriginalDone(X)
            /\ (calls[i].pc = "done" /\ calls[j].pc = "done")
                  => DoneOf(todos, X) = OriginalDone(X)

\* C10 as amended: both toggles pass validation and the existence check, so
\* each succeeds or returns the generic failure of a failed statement; when
\* both succeed, the item's done is its original value in the store and,
\* once both callers have resumed, in the collection.
TogglePairRestoresDone ==
    \A X \in {U1, U2} : \A i, j \in CallIds :
        TogglePair(X, i, j) =>
            /\ \A k \in {i, j} :
                  \/ IsSuccess(calls[k].result)
                  \/ calls[k].result = Failure(FixedMessage("toggleTodo"))
            /\ (IsSuccess(calls[i].result) /\ IsSuccess(calls[j].result)) =>
                  /\ DoneOf(store, X) = OriginalDone(X)
                  /\ (calls[i].pc = "done" /\ calls[j].pc = "done")
                        => /\ X \in Ids(todos)
                           /\ DoneOf(todos, X) = OriginalDone(X)

\* Both toggles of U1 succeeded one after the other, both callers have
\* resumed, and U1 is not done, in the store and in the collection.
TogglePairWitness ==
    \E i, j \in CallIds :
        /\ TogglePair(U1, i, j)
        /\ calls[i].pc = "done" /\ calls[j].pc = "done"
        /\ IsSuccess(calls[i].result) /\ IsSuccess(calls[j].result)
        /\ DoneOf(store, U1) = FALSE
        /\ DoneOf(todos, U1) = FALSE

\* ------------------------------------------------------------------------
\* C11.  Delete twice.  X is an item of the initial table; the only two
\* operations issued are deletes of X, the second started after the first
\* had finished, and no statement of either was rejected by the storage.
\* The first succeeds and removes exactly the row of X; the second fails
\* with "Todo not found" and changes nothing.
\* ------------------------------------------------------------------------
DeletePair(X, i, j) ==
    /\ ops = 2
    /\ i # j
    /\ calls[i].n = 1 /\ calls[j].n = 2
    /\ calls[i].op = "deleteTodo" /\ calls[j].op = "deleteTodo"
    /\ calls[i].id = X /\ calls[j].id = X
    /\ calls[i].alone /\ calls[j].alone
    /\ Resolved(calls[i]) /\ Resolved(calls[j])
    /\ calls[i].result # Failure(FixedMessage("deleteTodo"))
    /\ calls[j].result # Failure(FixedMessage("deleteTodo"))

DeleteTwice ==
    \A X \in {U1, U2} : \A i, j \in CallIds :
        DeletePair(X, i, j) =>
            /\ IsSuccess(calls[i].result)
            /\ \E st \in InitialStores :
                  /\ X \in Ids(st)
                  /\ store = Others(st, X)
                  /\ Len(store) = Len(st) - 1
            /\ calls[j].result = Failure("Todo not found")

\* ------------------------------------------------------------------------
\* C12.  Success keeps the optimistic state: when changeTodoText,
\* toggleIsTodoDone or deleteTodoItem ran with no other operation in flight
\* and its action succeeded, the collection after the call is the collection
\* captured before it with the text of the item replaced / its done flipped
\* / the item removed, every other item, the order and the length being
\* unchanged; resuming changes nothing, and nothing else is in flight that
\* could have fetched the collection from the server.
\* ------------------------------------------------------------------------
\* Position of the item with identifier id in rows, 0 when there is none.
IndexOf(rows, id) ==
    IF id \in Ids(rows) THEN CHOOSE k \in 1..Len(rows) : rows[k].id = id
    ELSE 0

LocallyTransformed(c, before, after) ==
    LET p == IndexOf(before, c.id)
    IN  CASE c.op = "editTodo" ->
               /\ Len(after) = Len(before)
               /\ \A k \in 1..Len(before) :
                     IF k = p
                     THEN after[k] = Row(c.id, c.text, before[k].done)
                     ELSE after[k] = before[k]
          [] c.op = "toggleTodo" ->
               /\ Len(after) = Len(before)
               /\ \A k \in 1..Len(before) :
                     IF k = p
                     THEN after[k] = Row(c.id, before[k].text,
                                         ~before[k].done)
                     ELSE after[k] = before[k]
          [] c.op = "deleteTodo" ->
               IF p = 0 THEN after = before
               ELSE /\ Len(after) = Len(before) - 1
                    /\ \A k \in 1..Len(after) :
                          after[k] = IF k < p THEN before[k]
                                     ELSE before[k + 1]

OptimisticStateStands ==
    [][\A i \in CallIds :
          (/\ Resumes(i)
           /\ calls[i].op \in Optimistic3
           /\ calls[i].alone
           /\ IsSuccess(calls[i].result))
          => /\ LocallyTransformed(calls[i], calls[i].originalTodos, todos')
             /\ todos' = todos
             /\ error' = error
             /\ \A j \in CallIds \ {i} : ~InFlight(calls'[j])]_vars

\* changeTodoText(U1, " b ") ran alone and succeeded: the collection holds
\* the text as typed, the store holds it trimmed, and nothing has made the
\* two agree.
OptimisticStateWitness ==
    \E i \in CallIds :
        /\ calls[i].op = "editTodo" /\ calls[i].id = U1
        /\ calls[i].text = <<" ", "b", " ">>
        /\ calls[i].pc = "done" /\ calls[i].alone /\ ops = 1
        /\ IsSuccess(calls[i].result)
        /\ todos[1] = Row(U1, <<" ", "b", " ">>, FALSE)
        /\ store[1] = Row(U1, <<"b">>, FALSE)
        /\ todos[2] = store[2]

\* ------------------------------------------------------------------------
\* C13.  Store text invariant: whatever texts addTodo and editTodo are
\* called with, and however the calls interleave, every row of the store
\* has a text that is not empty, neither starts nor ends with white space
\* (it is its own trim), and is at most 500 characters long.
\* ------------------------------------------------------------------------
StoreTextInvariant ==
    \A k \in 1..Len(store) :
        LET t == store[k].text
        IN  /\ Len(t) >= 1
            /\ Len(t) <= 500
            /\ t[1] \notin WhiteSpace
            /\ t[Len(t)] \notin WhiteSpace
            /\ IsTrimOf(t, t)

\* editTodo(U1, " b ") and addTodo(" b ") both went through: the first and
\* the new third row hold "b".
StoreTextWitness ==
    /\ Len(store) = 3
    /\ store[1] = Row(U1, <<"b">>, FALSE)
    /\ store[3].text = <<"b">>
    /\ \E i, j \in CallIds :
          /\ calls[i].op = "editTodo" /\ calls[i].text = <<" ", "b", " ">>
          /\ calls[j].op = "addTodo" /\ calls[j].text = <<" ", "b", " ">>
          /\ IsSuccess(calls[i].result) /\ IsSuccess(calls[j].result)

\* ------------------------------------------------------------------------
\* C14.  Identifier uniqueness: the rows of the store have pairwise distinct
\* identifiers at all times, and a successful addTodo, which receives no
\* identifier from its caller, returns a well-formed identifier that the
\* store has never handed out before, whatever other calls are in flight.
\* ------------------------------------------------------------------------
IdentifiersUnique ==
    /\ [](\A a, b \in 1..Len(store) : store[a].id = store[b].id => a = b)
    /\ [][\A i \in CallIds :
             (Returns(i) /\ calls[i].op = "addTodo"
                /\ IsSuccess(calls'[i].result))
             => LET new == calls'[i].result.data
                IN  /\ calls[i].id = NoString
                    /\ IsUuid(new.id)
                    /\ new.id \notin issued
                    /\ new.id \notin Ids(store)
                    /\ new.id \notin Ids(todos)
                    /\ store' = Append(store, new)]_vars

\* Two addTodo calls were in flight together and both succeeded: the store
\* holds the two initial rows and two new ones, four identifiers in all.
IdentifiersUniqueWitness ==
    \E i, j \in CallIds :
        /\ i # j
        /\ calls[i].op = "addTodo" /\ calls[j].op = "addTodo"
        /\ ~calls[i].alone /\ ~calls[j].alone
        /\ IsSuccess(calls[i].result) /\ IsSuccess(calls[j].result)
        /\ calls[i].result.data.id # calls[j].result.data.id
        /\ Len(store) = 4
        /\ Cardinality(Ids(store)) = 4

\* ------------------------------------------------------------------------
\* C15 as claimed.  Edit and toggle frame: a successful editTodo(id, text) sets the
\* stored text of row id to the trimmed text and changes nothing else; a
\* successful toggleTodo(id) negates the stored done of row id and changes
\* nothing else; and no step changes the identifier of a row: rows keep
\* their identifiers and their order, a delete removes rows and an insert
\* adds one at the end.
\* ------------------------------------------------------------------------
\* after is before with the row at position p replaced by row.
ReplacedAt(before, after, p, row) ==
    /\ Len(after) = Len(before)
    /\ \A k \in 1..Len(before) :
          after[k] = IF k = p THEN row ELSE before[k]

\* The identifiers of rows, in the order of the rows.
IdColumn(rows) == [k \in 1..Len(rows) |-> rows[k].id]

\* sub is seq with some of its elements left out.
IsSubSeq(sub, seq) ==
    \E keep \in SUBSET (1..Len(seq)) :
        /\ Cardinality(keep) = Len(sub)
        /\ \A k \in 1..Len(sub) :
              \E m \in keep :
                 /\ Cardinality({x \in keep : x <= m}) = k
                 /\ sub[k] = seq[m]

EditToggleFrame ==
    [][/\ \A i \in CallIds :
             (/\ calls[i].pc = "mutate" /\ Returns(i)
              /\ IsSuccess(calls'[i].result)
              /\ calls[i].op \in {"editTodo", "toggleTodo"})
             => LET c == calls[i]
                    p == IndexOf(store, c.id)
                    new == store'[p]
                IN  /\ p > 0
                    /\ new.id = c.id
                    /\ IF c.op = "editTodo"
                       THEN /\ IsTrimOf(new.text, c.text)
                            /\ new.done = store[p].done
                       ELSE /\ new.text = store[p].text
                            /\ new.done = ~store[p].done
                    /\ ReplacedAt(store, store', p, new)
       /\ \/ IdColumn(store') = IdColumn(store)
          \/ /\ \E i \in CallIds : calls[i].op = "deleteTodo"
             /\ IsSubSeq(store', store)
          \/ /\ \E i \in CallIds : calls[i].op = "addTodo"
             /\ SubSeq(store', 1, Len(store)) = store
             /\ Len(store') = Len(store) + 1]_vars

\* C15 as amended: the update of a successful editTodo / toggleTodo changes
\* the row of id as claimed when that row is still in the store; when a
\* concurrent deleteTodo has removed it since the existence check, the call
\* still succeeds and the store is unchanged.  The identifier part is as
\* claimed.
EditToggleFrameIfPresent ==
    [][/\ \A i \in CallIds :
             (/\ calls[i].pc = "mutate" /\ Returns(i)
              /\ IsSuccess(calls'[i].result)
              /\ calls[i].op \in {"editTodo", "toggleTodo"})
             => LET c == calls[i]
                    p == IndexOf(store, c.id)
                IN  IF p = 0 THEN store' = store
                    ELSE LET new == store'[p]
                         IN  /\ new.id = c.id
                             /\ IF c.op = "editTodo"
                                THEN /\ IsTrimOf(new.text, c.text)
                                     /\ new.done = store[p].done
                                ELSE /\ new.text = store[p].text
                                     /\ new.done = ~store[p].done
                             /\ ReplacedAt(store, store', p, new)
       /\ \/ IdColumn(store') = IdColumn(store)
          \/ /\ \E i \in CallIds : calls[i].op = "deleteTodo"
             /\ IsSubSeq(store', store)
          \/ /\ \E i \in CallIds : calls[i].op = "addTodo"
             /\ SubSeq(store', 1, Len(store)) = store
             /\ Len(store') = Len(store) + 1]_vars

\* editTodo(U1, " b ") succeeded after a toggleTodo(U1) had: row U1 holds
\* "b" and is done, row U2 is as it was.
EditToggleWitness ==
    \E i, j \in CallIds :
        /\ calls[i].op = "toggleTodo" /\ calls[i].id = U1
        /\ calls[j].op = "editTodo" /\ calls[j].id = U1
        /\ IsSuccess(calls[i].result) /\ IsSuccess(calls[j].result)
        /\ store = <<Row(U1, <<"b">>, TRUE), Row(U2, <<"c">>, TRUE)>>

\* ------------------------------------------------------------------------
\* C16 (SpecError).  Error display: after showError(m) the displayed error
\* is m; an error is cleared by a timeout only when it has been displayed
\* for the dismiss duration, and is not displayed longer than that;
\* clearError clears it at once.
\* ------------------------------------------------------------------------
ErrorDisplay ==
    /\ [](error # null => /\ error = shown.message
                          /\ clock <= shown.at + DismissAfter)
    /\ [][/\ shown' # shown => error' = shown'.message
          /\ (Len(timers') < Len(timers) /\ error # null)
                => /\ error' = null
                   /\ clock = shown.at + DismissAfter
          /\ (error # null /\ error' = null /\ timers' = timers)
                => clock' = clock]_vars

\* The promise createTodo returned for the call in the slot settles in this
\* step and handleAdd runs to its end.
Completes(i) ==
    /\ calls[i].op = "addTodo"
    /\ calls[i].pc \in {"returned", "rejected"}
    /\ calls'[i].pc = "done"

\* The creates AddTodo is awaiting.
Creating ==
    {i \in CallIds : /\ calls[i].op = "addTodo"
                     /\ calls[i].pc \in {"mutate", "returned", "rejected"}}

\* ------------------------------------------------------------------------
\* C17 (SpecAdd).  AddTodo clears its input only when the todo was created:
\* when handleAdd completes, the input is empty if the create succeeded,
\* and still holds the typed value if the action reported failure or the
\* call rejected.
\* ------------------------------------------------------------------------
InputClearedOnlyOnSuccess ==
    [][\A i \in CallIds :
          Completes(i) =>
              IF IsSuccess(calls[i].result)
              THEN input' = NoString
              ELSE input' = calls[i].text /\ input' # NoString]_vars

\* ------------------------------------------------------------------------
\* C18 (SpecAdd).  AddTodo submission guard: a create is started only when
\* the trimmed input is not empty and no create of this AddTodo is
\* unresolved, for clicks and Enter presses in any order, so at most one
\* is in flight; the loading flag is set exactly while one is, and is false
\* again once it has resolved or rejected.
\* ------------------------------------------------------------------------
SubmissionGuard ==
    /\ [](/\ Cardinality(Creating) <= 1
          /\ isLoading <=> Creating # {})
    /\ [][\A i \in CallIds :
             /\ (Starts(i) /\ calls'[i].op = "addTodo")
                   => /\ ~IsBlank(input)
                      /\ ~isLoading /\ isLoading'
                      /\ Creating = {}
                      /\ calls'[i].text = input
                      /\ event' \in {"click", "keypress"}
             /\ Completes(i) => ~isLoading']_vars

\* A first create was completed and a second one, started afterwards, is
\* the only one in flight; the loading flag is set and the last event was a
\* click.
SubmissionGuardWitness ==
    \E i, j \in CallIds :
        /\ calls[i].op = "addTodo" /\ calls[i].pc = "done"
        /\ calls[i].n = 1
        /\ calls[j].op = "addTodo" /\ calls[j].pc = "mutate"
        /\ calls[j].n = 2
        /\ ops = 2
        /\ isLoading
        /\ event = "click"
        /\ Creating = {j}

\* ------------------------------------------------------------------------
\* C19 (SpecValidate).  A message built from issues contains a fragment
\* that holds no ", " exactly when one of the issues contains it; the issue
\* messages that contain a fragment are listed.
\* ------------------------------------------------------------------------
HasIssueAmong(issues, messages) ==
    \E k \in 1..Len(issues) : issues[k] \in messages

\* "0", "-1" and "1.5": zero, negative, not an integer
IntegerLikeIds == {BadZero, BadNegative, BadFraction}

\* Messages containing "positive integer" or zod's "expected int".
PositiveIntegerMessages ==
    {"Todo ID must be a positive integer", "Expected integer, received float",
     "Invalid input: expected int, received number"}

FailedRules(c) ==
    {m \in {MsgBadId, MsgEmptyText, MsgLongText} :
        \/ m = MsgBadId /\ HasId(c) /\ ~IsUuid(c.id)
        \/ m = MsgEmptyText /\ HasText(c) /\ IsBlank(c.text)
        \/ m = MsgLongText /\ HasText(c) /\ ~IsBlank(c.text)
              /\ TextInvalid(c.text)}

ReportsEveryRule(c) ==
    LET failed == FailedRules(c)
        one == CHOOSE m \in failed : TRUE
        text == CHOOSE m \in failed : m # MsgBadId
    IN  CASE Cardinality(failed) = 1 -> c.result = Failure(one)
          [] Cardinality(failed) = 2 ->
                c.result = Failure(MsgBadId \o ", " \o text)

ValidationReporting ==
    /\ \A i \in CallIds :
          (calls[i].op \in Actions4 /\ FailedRules(calls[i]) # {})
          => /\ Resolved(calls[i])
             /\ ReportsEveryRule(calls[i])
    /\ \A i, j \in CallIds :
          (/\ calls[i].op \in Actions4
           /\ calls[i].op = calls[j].op
           /\ calls[i].id = calls[j].id
           /\ calls[i].text = calls[j].text
           /\ FailedRules(calls[i]) # {})
          => calls[i].result = calls[j].result

\* editTodo("not-a-uuid", " ") was called, and called again when the first
\* call had been completed: both returned the two messages joined.
ValidationReportingWitness ==
    \E i, j \in CallIds :
        /\ i # j
        /\ calls[i].op = "editTodo" /\ calls[j].op = "editTodo"
        /\ calls[i].id = BadWord /\ calls[j].id = BadWord
        /\ calls[i].text = <<" ">> /\ calls[j].text = <<" ">>
        /\ calls[i].pc = "done" /\ calls[j].pc = "returned"
        /\ calls[i].result =
              Failure("Todo ID must be a valid UUID, Todo text cannot be empty")
        /\ calls[j].result = calls[i].result

\* ------------------------------------------------------------------------
\* C21
\* ------------------------------------------------------------------------

\* What the page was rendered with.
InitialTodos == CHOOSE rows \in InitialStores : TRUE

\* What an entry point does to the collection before it awaits.
LocalEffect(c, rows) ==
    CASE c.op = "editTodo" -> OptimisticText(rows, c.id, c.text)
      [] c.op = "toggleTodo" -> OptimisticToggle(rows, c.id)
      [] c.op = "deleteTodo" -> OptimisticDelete(rows, c.id)
      [] OTHER -> rows

FailedOptimistic(c) ==
    c.op \in Optimistic3 /\ Resolved(c) /\ IsFailure(c.result)

\* C21: when two of changeTodoText / toggleIsTodoDone / deleteTodoItem
\* overlap and both actions fail, the rollback of the one that completes
\* last puts its own snapshot in place, whatever the other rollback left; so
\* once both have completed the collection is the first call's snapshot (the
\* initial collection) or the second call's snapshot (the initial collection
\* with the first call's local change still applied), never a merge.
OverlappingRollbacks ==
    /\ [](\A i, j \in CallIds :
            ( /\ ops = 2 /\ calls[i].n = 1 /\ calls[j].n = 2
              /\ FailedOptimistic(calls[i]) /\ FailedOptimistic(calls[j])
              /\ calls[i].pc = "done" /\ calls[j].pc = "done"
              /\ ~calls[i].alone /\ ~calls[j].alone )
            => todos \in {InitialTodos,
                          LocalEffect(calls[i], InitialTodos)})
    /\ [][\A i, j \in CallIds :
            ( /\ i # j
              /\ FailedOptimistic(calls[i]) /\ FailedOptimistic(calls[j])
              /\ ~calls[i].alone /\ ~calls[j].alone
              /\ calls[j].pc = "done"
              /\ Resumes(i) )
            => todos' = calls[i].originalTodos]_vars

\* Two overlapping calls have both failed and completed, the one started
\* second last: the collection is its snapshot, which still shows the local
\* change of the first call although that call failed.
OverlappingRollbacksWitness ==
    \E i, j \in CallIds :
        /\ ops = 2 /\ calls[i].n = 1 /\ calls[j].n = 2
        /\ FailedOptimistic(calls[i]) /\ FailedOptimistic(calls[j])
        /\ calls[i].pc = "done" /\ calls[j].pc = "done"
        /\ ~calls[i].alone /\ ~calls[j].alone
        /\ todos = LocalEffect(calls[i], InitialTodos)
        /\ todos # InitialTodos

\* ------------------------------------------------------------------------
\* C22
\* ------------------------------------------------------------------------

\* The call in the slot passed its existence check, and the row it is about
\* has been deleted since.
RowGoneBeforeMutation(i) ==
    /\ calls[i].op \in Optimistic3
    /\ calls[i].pc = "mutate"
    /\ calls[i].validId \notin Ids(store)

\* C22: the existence check and the mutation are two steps, so a
\* deleteTodo(id) can take effect between them; when it has, the update or
\* delete of the other action affects no row, the store is left as it is,
\* and unless a statement throws the action returns success.
CheckThenMutate ==
    [][\A i \in CallIds :
          (RowGoneBeforeMutation(i) /\ Returns(i)) =>
              /\ store' = store
              /\ calls'[i].caught = null =>
                     calls'[i].result = Success(undefined)]_vars

\* Two overlapping deleteTodo(U1) both passed the existence check, and both
\* returned success: the one that ran its delete second deleted no row.
CheckThenMutateWitness ==
    \E i, j \in CallIds :
        /\ i # j
        /\ calls[i].op = "deleteTodo" /\ calls[j].op = "deleteTodo"
        /\ calls[i].id = U1 /\ calls[j].id = U1
        /\ calls[i].pc = "returned" /\ calls[j].pc = "returned"
        /\ calls[i].accesses = 2 /\ calls[j].accesses = 2
        /\ IsSuccess(calls[i].result) /\ IsSuccess(calls[j].result)
        /\ U1 \notin Ids(store)

\* ------------------------------------------------------------------------
\* C23
\* ------------------------------------------------------------------------

\* No operation is in flight.
Quiescent == \A i \in CallIds : calls[i].pc \in {"idle", "done"}

\* Every operation started so far is still on record.
HistoryKept == \A k \in 1..ops : \E i \in CallIds : calls[i].n = k

\* The operation started k-th.
Invoked(k) == calls[CHOOSE i \in CallIds : calls[i].n = k]

\* The initial collection with the successful ones of the first k
\* operations applied in the order they were started.
RECURSIVE SuccessfulApplied(_)
SuccessfulApplied(k) ==
    IF k = 0 THEN InitialTodos
    ELSE LET prev == SuccessfulApplied(k - 1)
             c == Invoked(k)
         IN  IF ~IsSuccess(c.result) THEN prev
             ELSE IF c.op = "addTodo" THEN AppendTodo(prev, c.result.data)
             ELSE LocalEffect(c, prev)

\* C23 as claimed: whenever nothing is in flight, however the operations
\* overlapped, the collection is the initial collection with exactly the
\* successful operations applied in invocation order.
QuiescentConsistency ==
    (Quiescent /\ HistoryKept) => todos = SuccessfulApplied(ops)

\* C23, amended: when the operations ran one at a time, each started after
\* the one before it had resolved, then once the last one has resolved the
\* collection is the initial collection with exactly the successful
\* operations applied in invocation order.
QuiescentConsistencySequential ==
    (Quiescent /\ HistoryKept /\ \A i \in CallIds : calls[i].alone)
        => todos = SuccessfulApplied(ops)

\* Two operations ran one after the other, one failed and one succeeded, and
\* the collection shows the successful one only.
QuiescentConsistencyWitness ==
    /\ Quiescent /\ HistoryKept /\ ops = 2
    /\ \A i \in CallIds : calls[i].alone
    /\ \E i, j \in CallIds :
          /\ calls[i].op \in Optimistic3 /\ IsFailure(calls[i].result)
          /\ calls[i].id = U1
          /\ calls[j].op \in Actions4 /\ IsSuccess(calls[j].result)
    /\ todos = SuccessfulApplied(ops)
    /\ todos # InitialTodos

\* ------------------------------------------------------------------------
\* C24
\* ------------------------------------------------------------------------

\* deleteTodoItem in the slot has resolved, its action having succeeded.
DeletedSuccessfully(d) ==
    /\ calls[d].op = "deleteTodo"
    /\ calls[d].pc = "done"
    /\ IsSuccess(calls[d].result)

\* C24 as claimed: once deleteTodoItem(id) has resolved with a successful
\* action, the item is absent from the collection in every later state.
DeletedStaysDeleted ==
    \A d \in CallIds :
        DeletedSuccessfully(d) => calls[d].id \notin Ids(todos)

\* C24, amended: once deleteTodoItem(id) has resolved with a successful
\* action, the item is absent from the collection in every later state
\* unless an edit, toggle or delete that was started before that call, and
\* overlapped it, has failed (its rollback puts back a snapshot that still
\* holds the item).
DeletedStaysDeletedUnlessRolledBack ==
    \A d \in CallIds :
        (DeletedSuccessfully(d) /\ HistoryKept
            /\ calls[d].id \in Ids(todos)) =>
            /\ ~calls[d].alone
            /\ \E k \in CallIds :
                  /\ calls[k].n < calls[d].n
                  /\ FailedOptimistic(calls[k])
                  /\ ~calls[k].alone

\* deleteTodoItem(U1) has resolved successfully, an operation on U1 started
\* after it and overlapping it has failed and rolled back, and U1 is still
\* absent.
DeletedStaysDeletedWitness ==
    \E d, k \in CallIds :
        /\ DeletedSuccessfully(d) /\ calls[d].id = U1
        /\ ~calls[d].alone
        /\ calls[k].n > calls[d].n
        /\ FailedOptimistic(calls[k]) /\ calls[k].pc = "done"
        /\ calls[k].id = U1
        /\ U1 \notin Ids(todos)

\* ------------------------------------------------------------------------
\* C25
\* ------------------------------------------------------------------------

\* C25: whenever addTodo, editTodo, toggleTodo or deleteTodo returns a
\* failure result, the store is as it was before the action ran its
\* statements, also when the statement that fails comes after the mutation.
FailureMeansNoStoreChange ==
    [][\A i \in CallIds :
          ( /\ calls[i].op \in Actions4
            /\ Returns(i)
            /\ IsFailure(calls'[i].result) )
          => store' = store]_vars

\* ------------------------------------------------------------------------
\* C26
\* ------------------------------------------------------------------------

TextOf(rows, id) == SelectById(rows, id)[1].text

\* C26: after changeTodoText(id, text) has resolved successfully, having run
\* with no other operation in flight and being the latest operation, the
\* text the collection holds for id equals the text the store holds for id.
ClientStoreAgreeAfterEdit ==
    \A i \in CallIds :
        ( /\ calls[i].op = "editTodo"
          /\ calls[i].pc = "done"
          /\ IsSuccess(calls[i].result)
          /\ calls[i].alone
          /\ calls[i].n = ops
          /\ Quiescent
          /\ calls[i].id \in Ids(store)
          /\ calls[i].id \in Ids(todos) )
        => TextOf(todos, calls[i].id) = TextOf(store, calls[i].id)

\* ------------------------------------------------------------------------
\* C27
\* ------------------------------------------------------------------------

\* C27: in every reachable state, also while an edit is in flight, every
\* item of the collection has a text that is not empty after trimming and
\* is at most 500 characters long.
CollectionTextInvariant ==
    \A k \in 1..Len(todos) :
        /\ ~IsBlank(todos[k].text)
        /\ Len(todos[k].text) <= MaxTextLen

\* ------------------------------------------------------------------------
\* C28
\* ------------------------------------------------------------------------

\* C28: the page is rendered with items of pairwise distinct identifiers,
\* and in every reachable state, whatever creates, edits, toggles and
\* deletes overlap, succeed, fail and roll back, no two items of the
\* collection have the same identifier.
CollectionIdentifiersUnique ==
    \A k, l \in 1..Len(todos) : todos[k].id = todos[l].id => k = l

\* A create that overlapped a failing edit, toggle or delete has appended its
\* item after the rollback: three items, an operation having failed.
CollectionIdentifiersWitness ==
    \E i, j \in CallIds :
        /\ calls[i].op = "addTodo" /\ calls[i].pc = "done"
        /\ IsSuccess(calls[i].result) /\ ~calls[i].alone
        /\ FailedOptimistic(calls[j]) /\ calls[j].pc = "done"
        /\ Len(todos) = Len(InitialTodos) + 1
        /\ calls[i].result.data.id \in Ids(todos)

\* ------------------------------------------------------------------------
\* C29
\* ------------------------------------------------------------------------

\* C29: the timeout of an earlier showError never clears the message of a
\* later one: a timeout that is not the one the displayed message scheduled
\* leaves the message displayed, and a displayed message goes away only when
\* its own dismiss delay has elapsed or clearError is called.
TimersDoNotInterfere ==
    [][/\ (Len(timers') < Len(timers)
             /\ timers[1] # shown.at + DismissAfter)
          => error' = error
       /\ (error # null /\ error' = null /\ Len(timers') < Len(timers))
          => clock >= shown.at + DismissAfter]_vars

\* ------------------------------------------------------------------------
\* C30
\* ------------------------------------------------------------------------

\* The toggleTodo calls on X issued so far.
TogglesOf(X) ==
    {i \in CallIds : calls[i].op = "toggleTodo" /\ calls[i].id = X}

\* The update of the toggleTodo in the slot runs in this step.
ToggleMutates(i) ==
    /\ calls[i].op = "toggleTodo"
    /\ calls[i].pc = "mutate"
    /\ calls'[i].pc = "returned"
    /\ calls'[i].caught \notin StorageErrors

\* C30: the update of toggleTodo negates the done the row has when the
\* update runs, whatever it was when the existence check ran; so, however
\* the calls overlap, once every toggleTodo(X) issued has returned success
\* and X is still stored, the stored done is the original value flipped once
\* per toggle: the original value after two, its negation after one or
\* three.
ConcurrentTogglesCompose ==
    /\ [](\A X \in RaceIds :
            ( /\ HistoryKept
              /\ X \in Ids(store)
              /\ \A i \in TogglesOf(X) :
                    Resolved(calls[i]) /\ IsSuccess(calls[i].result) )
            => DoneOf(store, X) =
                  IF Cardinality(TogglesOf(X)) % 2 = 0
                  THEN OriginalDone(X) ELSE ~OriginalDone(X))
    /\ [][\A i \in CallIds :
            (ToggleMutates(i) /\ calls[i].validId \in Ids(store)) =>
                /\ calls[i].validId \in Ids(store')
                /\ DoneOf(store', calls[i].validId)
                      = ~DoneOf(store, calls[i].validId)]_vars

\* Two toggleTodo(U1) were in flight together, both have returned success,
\* and the stored done of U1 is its original value.
ConcurrentTogglesWitness ==
    \E i, j \in CallIds :
        /\ i # j
        /\ TogglesOf(U1) = {i, j}
        /\ ~calls[i].alone /\ ~calls[j].alone
        /\ calls[i].pc = "returned" /\ calls[j].pc = "returned"
        /\ IsSuccess(calls[i].result) /\ IsSuccess(calls[j].result)
        /\ U1 \in Ids(store)
        /\ DoneOf(store, U1) = OriginalDone(U1)

====
